---- MODULE Spec2Model ----
(***************************************************************************)
(* The retrieval core of the dashboard: the JSON-file vector store of      *)
(* lib/rag (src/unnamed/part_001), the routes that call it                 *)
(* (src/unnamed/part_011, part_012) and the restore route that overwrites  *)
(* its file (src/unnamed/part_003).                                        *)
(*                                                                         *)
(* Strings are sequences of one-character strings.  Scores are fixed-point *)
(* numbers in hundredths (0.05 is 5, 0.01 is 1); the digests of the texts  *)
(* of the model are chosen with perfect-square norms, so that every cosine *)
(* of the model is an exact number of hundredths.                          *)
(*                                                                         *)
(* Beside the store stand the library functions it is fed by, each under   *)
(* a specification of its own: chunkText of lib/parse (SpecChunk),         *)
(* resolveProvider and embedText of lib/embeddings (SpecResolve,           *)
(* SpecEmbed), and indexSources taken one await at a time with two calls   *)
(* in flight (SpecSteps).                                                  *)
(*                                                                         *)
(* A request runs from its load to its response in one step.  A record's   *)
(* id (crypto.randomUUID(), read nowhere) and the prisma.docMeta.create    *)
(* row, whose failure indexSources ignores, are left out of the state.     *)
(***************************************************************************)
EXTENDS Integers, Sequences, FiniteSets, TLC

VARIABLES vectorsFile, last, document, chunked, env, embedded, resolved, calls,
          rawVector, normalized, postBody, routed,
          disk, heap, cache, indexCall, backupCall, restoreCall, history

storeVars == <<vectorsFile, last>>

chunkVars == <<document, chunked>>

embedVars == <<env, embedded, resolved>>

normVars == <<rawVector, normalized>>

routeVars == <<postBody, routed>>

faissVars == <<disk, heap, cache, indexCall, backupCall, restoreCall, history>>

moreVars == <<normVars, routeVars, faissVars>>

vars == <<storeVars, chunkVars, embedVars, calls, moreVars>>

(***************************************************************************)
(* Bounds of the model                                                     *)
(***************************************************************************)
MaxBatch == 3

MaxK == 3

MaxWords == 1601

MaxExcess == 2

MaxDimension == 3

MaxSources == 2

\* The requests and restarts of a behaviour of the faiss store.
MaxIndexCalls == 2

MaxBackups == 1

MaxRestores == 1

MaxRestarts == 1

(***************************************************************************)
(* Program constants                                                       *)
(***************************************************************************)
Sha512Bytes == 64

KEYWORD_BOOST == 5

SCORE_THRESHOLD == 1

DEFAULT_K == 5

CHUNK_SIZE == 1000

CHUNK_OVERLAP == 200

MAX_INPUT_CHARS == 16000

DEFAULT_FALLBACK_DIM == 384

\* The number of fixed-point units in 1.
FloatScale == 1000

\* Larger than every embedding dimension of the model.
HashStride == 1000

(***************************************************************************)
(* Generic helpers                                                         *)
(***************************************************************************)
Range(s) == {s[i] : i \in DOMAIN s}

Min(a, b) == IF a <= b THEN a ELSE b

Max(a, b) == IF a >= b THEN a ELSE b

ISqrt(n) == CHOOSE r \in 0..n : r * r <= n /\ (r + 1) * (r + 1) > n

RECURSIVE SumSeq(_)
SumSeq(s) == IF s = <<>> THEN 0 ELSE s[1] + SumSeq(Tail(s))

\* Array.prototype.slice(start, end) on a sequence (0-based arguments, a
\* negative argument counts from the end).
Slice(s, start, end) ==
  LET n == Len(s)
      from == IF start < 0 THEN Max(n + start, 0) ELSE Min(start, n)
      to == IF end < 0 THEN Max(n + end, 0) ELSE Min(end, n)
  IN SubSeq(s, from + 1, to)

(***************************************************************************)
(* Strings                                                                 *)
(***************************************************************************)
LowerChar(c) == CASE c = "A" -> "a" [] c = "B" -> "b" [] OTHER -> c

toLowerCase(s) == [i \in DOMAIN s |-> LowerChar(s[i])]

IsSpace(c) == c = " "

\* s.split(/\s+/).filter(Boolean): the maximal runs of non-space characters.
RECURSIVE SplitTerms(_, _)
SplitTerms(s, cur) ==
  IF s = <<>> THEN (IF cur = <<>> THEN <<>> ELSE <<cur>>)
  ELSE IF IsSpace(s[1])
       THEN (IF cur = <<>> THEN <<>> ELSE <<cur>>) \o SplitTerms(Tail(s), <<>>)
       ELSE SplitTerms(Tail(s), Append(cur, s[1]))

\* String.prototype.includes
includes(text, term) ==
  \E i \in 0..(Len(text) - Len(term)) : SubSeq(text, i + 1, i + Len(term)) = term

(***************************************************************************)
(* The texts of the model: chunk texts, query strings                      *)
(***************************************************************************)
ChunkAB == <<"a", " ", "b">>

ChunkJoined == <<"a", "b">>

ChunkUpper == <<"B">>

ChunkBA == <<"b", " ", "a">>

QueryA == <<"a">>

QueryAA == <<"a", " ", "a">>

QueryMixed == <<"A", " ", "b">>

QueryC == <<"c">>

QueryBlank == <<" ">>

Queries == {QueryA, QueryAA, QueryMixed, QueryC, QueryBlank}

\* The first two 32-bit words of the SHA-512 digest of a text (the hash is
\* abstracted to a table; the remaining words are 0).
DigestHead(text) ==
  CASE text = ChunkAB -> <<3, 4>>
    [] text = ChunkJoined -> <<4, 3>>
    [] text = ChunkUpper -> <<-4, -3>>
    [] text = ChunkBA -> <<4, -3>>
    [] text = QueryA -> <<5, 0>>
    [] text = QueryAA -> <<0, 5>>
    [] text = QueryMixed -> <<-3, 4>>
    [] text = QueryC -> <<0, -5>>
    [] OTHER -> <<-5, 0>>

\* crypto.createHash('sha256').update(text).digest('hex'): an injective tag.
hashText(text) == <<"sha256", text>>

\* One component per 4 bytes of the digest.  readInt32BE(0) / 2 ** 31 scales
\* every component by the same positive factor, which cosineSimilarity
\* cancels; the components are kept as the 32-bit words.
createEmbedding(text) ==
  [i \in 1..(Sha512Bytes \div 4) |-> IF i <= 2 THEN DigestHead(text)[i] ELSE 0]

cosineSimilarity(a, b) ==
  LET length == Min(Len(a), Len(b))
      dot == SumSeq([i \in 1..length |-> a[i] * b[i]])
      normA == SumSeq([i \in 1..length |-> a[i] * a[i]])
      normB == SumSeq([i \in 1..length |-> b[i] * b[i]])
  IN IF normA = 0 \/ normB = 0 THEN 0
     ELSE (dot * 100) \div (ISqrt(normA) * ISqrt(normB))

(***************************************************************************)
(* lib/parse: chunkText                                                    *)
(*                                                                         *)
(* In this part a string is a sequence of pieces: a word (a maximal run of *)
(* non-whitespace characters, named by its position in the document), a    *)
(* run of whitespace " ", or the empty string "".  A document holds its    *)
(* words one whitespace run apart, with or without a run before the first  *)
(* and after the last.                                                     *)
(***************************************************************************)
Word(i) == ToString(i)

Document(lead, words, trail) == [lead |-> lead, words |-> words, trail |-> trail]

NoDocument == Document(FALSE, 0, FALSE)

\* The text of a document, as parsePlainText reads it from the file.
TextOf(doc) ==
  LET body == [i \in 1..(IF doc.words = 0 THEN 0 ELSE 2 * doc.words - 1) |->
                 IF i % 2 = 1 THEN Word((i + 1) \div 2) ELSE " "]
  IN IF doc.words = 0
     THEN (IF doc.lead \/ doc.trail THEN <<" ">> ELSE <<>>)
     ELSE (IF doc.lead THEN <<" ">> ELSE <<>>) \o body
            \o (IF doc.trail THEN <<" ">> ELSE <<>>)

\* text.split(/\s+/): the pieces between the whitespace runs, an empty string
\* where the text begins or ends with a run (and for the empty text).
splitWhitespace(text) ==
  LET runs == Cardinality({i \in DOMAIN text : IsSpace(text[i])})
      shift == IF text # <<>> /\ IsSpace(text[1]) THEN 1 ELSE 0
  IN [j \in 1..(runs + 1) |->
        IF (2 * j - 1 - shift) \in DOMAIN text THEN text[2 * j - 1 - shift] ELSE ""]

\* tokens.join(' ')
joinSpace(tokens) ==
  [i \in 1..(IF tokens = <<>> THEN 0 ELSE 2 * Len(tokens) - 1) |->
     IF i % 2 = 1 THEN tokens[(i + 1) \div 2] ELSE " "]

IsBlankPiece(c) == c = "" \/ IsSpace(c)

\* String.prototype.trim
trim(s) ==
  LET first == CHOOSE i \in 1..(Len(s) + 1) :
                 /\ i = Len(s) + 1 \/ ~IsBlankPiece(s[i])
                 /\ \A j \in 1..(i - 1) : IsBlankPiece(s[j])
      lastKept == CHOOSE i \in 0..Len(s) :
                    /\ i = 0 \/ ~IsBlankPiece(s[i])
                    /\ \A j \in (i + 1)..Len(s) : IsBlankPiece(s[j])
  IN SubSeq(s, first, lastKept)

\* The chunks the loop pushes when every window is kept.
chunkTextKeepEmpty(text) ==
  LET tokens == splitWhitespace(text)
      stride == CHUNK_SIZE - CHUNK_OVERLAP
      rounds == (Len(tokens) + stride - 1) \div stride
  IN [r \in 1..rounds |->
        trim(joinSpace(Slice(tokens, (r - 1) * stride, (r - 1) * stride + CHUNK_SIZE)))]

\* The chunks of a loop that advances by CHUNK_SIZE, without overlap.
chunkTextNoOverlap(text) ==
  LET tokens == splitWhitespace(text)
      rounds == (Len(tokens) + CHUNK_SIZE - 1) \div CHUNK_SIZE
      slices == [r \in 1..rounds |->
                   trim(joinSpace(Slice(tokens, (r - 1) * CHUNK_SIZE, r * CHUNK_SIZE)))]
  IN SelectSeq(slices, LAMBDA slice : slice # <<>>)

\* for (i = 0; i < tokens.length; i += CHUNK_SIZE - CHUNK_OVERLAP): round r
\* has i = (r - 1) * stride; a slice that is empty after trim() is not pushed.
chunkText(text) ==
  LET tokens == splitWhitespace(text)
      stride == CHUNK_SIZE - CHUNK_OVERLAP
      rounds == (Len(tokens) + stride - 1) \div stride
      slices == [r \in 1..rounds |->
                   trim(joinSpace(Slice(tokens, (r - 1) * stride,
                                        (r - 1) * stride + CHUNK_SIZE)))]
  IN SelectSeq(slices, LAMBDA slice : slice # <<>>)

NotChunked == [done |-> FALSE, chunks |-> <<>>]

(***************************************************************************)
(* lib/embeddings: the texts it is given                                   *)
(*                                                                         *)
(* A text of this part is a sequence of runs, a run being a character and  *)
(* the number of times it is repeated, so that texts longer than the       *)
(* truncation limit can be written down.                                   *)
(***************************************************************************)
Run(char, count) == [char |-> char, count |-> count]

TextLength(text) == SumSeq([i \in DOMAIN text |-> text[i].count])

\* text.slice(0, end)
RECURSIVE sliceText(_, _)
sliceText(text, end) ==
  IF text = <<>> \/ end <= 0 THEN <<>>
  ELSE IF text[1].count <= end
       THEN <<text[1]>> \o sliceText(Tail(text), end - text[1].count)
       ELSE <<Run(text[1].char, end)>>

\* text.trim()
trimText(text) ==
  LET kept == {i \in DOMAIN text : ~IsSpace(text[i].char)}
  IN IF kept = {} THEN <<>>
     ELSE SubSeq(text, CHOOSE i \in kept : \A j \in kept : i <= j,
                 CHOOSE i \in kept : \A j \in kept : i >= j)

EmptyText == <<>>

SpacesText == <<Run(" ", 3)>>

ShortText == <<Run(" ", 1), Run("h", 1), Run("i", 1), Run(" ", 1)>>

FullText == <<Run("x", MAX_INPUT_CHARS)>>

LongTextY == <<Run("x", MAX_INPUT_CHARS), Run("y", 1)>>

LongTextZ == <<Run("x", MAX_INPUT_CHARS), Run("z", MaxExcess)>>

PaddedText == <<Run(" ", MAX_INPUT_CHARS), Run("x", 1)>>

\* Every text the model embeds, and every text truncation makes of one.
EmbedTextList ==
  <<EmptyText, SpacesText, ShortText, FullText, LongTextY, LongTextZ, PaddedText,
    <<Run(" ", MAX_INPUT_CHARS)>>>>

EmbedTexts ==
  {EmptyText, SpacesText, ShortText, FullText, LongTextY, LongTextZ, PaddedText}

(***************************************************************************)
(* lib/embeddings: process.env, the provider and embedText                 *)
(***************************************************************************)
\* The value of a variable that is not set.
Undefined == "undefined"

\* value?.trim() on the values of the model.
trimValue(value) == IF value = "  " THEN "" ELSE value

Truthy(value) == value # Undefined /\ value # ""

\* Number(raw) in tenths; finite is FALSE for NaN.
NumberOf(raw) ==
  CASE raw = "8" -> [finite |-> TRUE, tenths |-> 80]
    [] raw = "2.5" -> [finite |-> TRUE, tenths |-> 25]
    [] raw = "-3" -> [finite |-> TRUE, tenths |-> -30]
    [] raw = "  " -> [finite |-> TRUE, tenths |-> 0]
    [] OTHER -> [finite |-> FALSE, tenths |-> 0]

getFallbackDimension(environment) ==
  LET raw == environment.EMBEDDINGS_FALLBACK_DIM
      parsed == IF Truthy(raw) THEN NumberOf(raw)
                ELSE [finite |-> TRUE, tenths |-> DEFAULT_FALLBACK_DIM * 10]
  IN IF ~parsed.finite \/ parsed.tenths <= 0 THEN DEFAULT_FALLBACK_DIM
     ELSE parsed.tenths \div 10

\* readInt32BE(0) of sha256(`${index}:${text}`): the hash is abstracted to a
\* code that differs for every index and text of the model.
Sha256Int32(index, text) ==
  HashStride * (CHOOSE code \in DOMAIN EmbedTextList : EmbedTextList[code] = text) + index

deterministicEmbedding(text, dimension) ==
  [component \in 1..dimension |-> Sha256Int32(component - 1, text)]

NoProvider == [name |-> "none", baseUrl |-> Undefined, key |-> Undefined]

\* resolveProvider with the openai branch before the genesis branch.
resolveProviderOpenaiFirst(environment) ==
  LET explicitBase == trimValue(environment.EMBEDDINGS_API_BASE)
      explicitKey == trimValue(environment.EMBEDDINGS_API_KEY)
      genesisBase == trimValue(environment.GENESIS_API_BASE)
      genesisKey == trimValue(environment.GENESIS_API_KEY)
      openaiKey == trimValue(environment.OPENAI_API_KEY)
      openrouterKey == trimValue(environment.OPENROUTER_API_KEY)
  IN IF Truthy(explicitBase) /\ Truthy(explicitKey)
     THEN [name |-> "custom", baseUrl |-> explicitBase, key |-> explicitKey]
     ELSE IF Truthy(openaiKey)
     THEN [name |-> "openai", baseUrl |-> "https://api.openai.com/v1", key |-> openaiKey]
     ELSE IF Truthy(genesisBase) /\ Truthy(genesisKey)
     THEN [name |-> "genesis", baseUrl |-> genesisBase, key |-> genesisKey]
     ELSE IF Truthy(openrouterKey)
     THEN [name |-> "openrouter", baseUrl |-> "https://openrouter.ai/api/v1",
           key |-> openrouterKey]
     ELSE NoProvider

\* resolveProvider; NoProvider stands for null.
resolveProvider(environment) ==
  LET explicitBase == trimValue(environment.EMBEDDINGS_API_BASE)
      explicitKey == trimValue(environment.EMBEDDINGS_API_KEY)
      genesisBase == trimValue(environment.GENESIS_API_BASE)
      genesisKey == trimValue(environment.GENESIS_API_KEY)
      openaiKey == trimValue(environment.OPENAI_API_KEY)
      openrouterKey == trimValue(environment.OPENROUTER_API_KEY)
  IN IF Truthy(explicitBase) /\ Truthy(explicitKey)
     THEN [name |-> "custom", baseUrl |-> explicitBase, key |-> explicitKey]
     ELSE IF Truthy(genesisBase) /\ Truthy(genesisKey)
     THEN [name |-> "genesis", baseUrl |-> genesisBase, key |-> genesisKey]
     ELSE IF Truthy(openaiKey)
     THEN [name |-> "openai", baseUrl |-> "https://api.openai.com/v1", key |-> openaiKey]
     ELSE IF Truthy(openrouterKey)
     THEN [name |-> "openrouter", baseUrl |-> "https://openrouter.ai/api/v1",
           key |-> openrouterKey]
     ELSE NoProvider

\* What the provider's endpoint does with a request: fetch rejects, or it
\* resolves with a status and a body that is JSON of the schema or is not.
Response(fetched, status, valid, data) ==
  [fetched |-> fetched, status |-> status, valid |-> valid, data |-> data]

ProviderVector == <<1, -2, 3>>

Responses ==
  {Response(FALSE, 0, FALSE, <<>>),
   Response(TRUE, 500, FALSE, <<>>),
   Response(TRUE, 200, FALSE, <<>>),
   Response(TRUE, 200, TRUE, <<>>),
   Response(TRUE, 200, TRUE, <<[embedding |-> <<>>]>>),
   Response(TRUE, 200, TRUE, <<[embedding |-> ProviderVector]>>)}

\* What a call of the module comes to: a returned result (null when result is
\* FALSE) or a thrown error, and the requests it sent.
Returned(vector, mode, provider, requests) ==
  [thrown |-> FALSE, result |-> TRUE, vector |-> vector, mode |-> mode,
   provider |-> provider, error |-> "", requests |-> requests]

ReturnedNull(requests) ==
  [thrown |-> FALSE, result |-> FALSE, vector |-> <<>>, mode |-> "", provider |-> "",
   error |-> "", requests |-> requests]

Thrown(error, requests) ==
  [thrown |-> TRUE, result |-> FALSE, vector |-> <<>>, mode |-> "", provider |-> "",
   error |-> error, requests |-> requests]

\* The try block of tryProviderEmbedding: the embedding of the response, or
\* the error that fetch, the status check, the schema or the length check
\* raises.
readEmbedding(response) ==
  IF ~response.fetched THEN [ok |-> FALSE, embedding |-> <<>>, error |-> "fetch failed"]
  ELSE IF response.status # 200
  THEN [ok |-> FALSE, embedding |-> <<>>, error |-> "Embedding provider error"]
  ELSE IF ~response.valid THEN [ok |-> FALSE, embedding |-> <<>>, error |-> "ZodError"]
  ELSE LET embedding == IF response.data = <<>> THEN <<>> ELSE response.data[1].embedding
       IN IF embedding = <<>>
          THEN [ok |-> FALSE, embedding |-> <<>>,
                error |-> "Embedding provider returned an empty vector."]
          ELSE [ok |-> TRUE, embedding |-> embedding, error |-> ""]

ProviderRequest(provider, text) ==
  [provider |-> provider.name, baseUrl |-> provider.baseUrl, key |-> provider.key,
   input |-> text]

\* tryProviderEmbedding whose catch rethrows whatever force is.
tryProviderEmbeddingUncaught(environment, text, force, response) ==
  LET provider == resolveProvider(environment)
      attempt == readEmbedding(response)
      requests == <<ProviderRequest(provider, text)>>
  IN IF provider = NoProvider
     THEN (IF force THEN Thrown("Embedding provider is not configured.", <<>>)
           ELSE ReturnedNull(<<>>))
     ELSE IF attempt.ok
     THEN Returned(attempt.embedding, "provider", provider.name, requests)
     ELSE Thrown(attempt.error, requests)

tryProviderEmbedding(environment, text, force, response) ==
  LET provider == resolveProvider(environment)
      attempt == readEmbedding(response)
      requests == <<ProviderRequest(provider, text)>>
  IN IF provider = NoProvider
     THEN (IF force THEN Thrown("Embedding provider is not configured.", <<>>)
           ELSE ReturnedNull(<<>>))
     ELSE IF attempt.ok
     THEN Returned(attempt.embedding, "provider", provider.name, requests)
     ELSE IF force THEN Thrown(attempt.error, requests)
     ELSE ReturnedNull(requests)

\* A text that is never cut.
truncateNothing(text) == text

\* text.length > 16000 ? text.slice(0, 16000) : text
truncate(text) ==
  IF TextLength(text) > MAX_INPUT_CHARS THEN sliceText(text, MAX_INPUT_CHARS) ELSE text

\* An embedText without its branch for blank text.
isBlankNever(trimmed) == FALSE

\* !trimmed.trim()
isBlank(trimmed) == trimText(trimmed) = <<>>

\* An embedText without its branch for the deterministic mode.
prefersDeterministicNever(preferred) == FALSE

\* preferred === 'deterministic'
prefersDeterministic(preferred) == preferred = "deterministic"

embedText(environment, text, preferred, response) ==
  LET trimmed == truncate(text)
      providerResult ==
        tryProviderEmbedding(environment, trimmed, preferred = "provider", response)
  IN IF isBlank(trimmed)
     THEN Returned(deterministicEmbedding(EmptyText, getFallbackDimension(environment)),
                   IF preferred = Undefined THEN "deterministic" ELSE preferred,
                   "deterministic-hash", <<>>)
     ELSE IF prefersDeterministic(preferred)
     THEN Returned(deterministicEmbedding(trimmed, getFallbackDimension(environment)),
                   "deterministic", "deterministic-hash", <<>>)
     ELSE IF providerResult.thrown \/ providerResult.result THEN providerResult
     ELSE IF preferred = "provider"
     THEN Thrown("Unable to compute embeddings with the configured provider.",
                 providerResult.requests)
     ELSE Returned(deterministicEmbedding(trimmed, getFallbackDimension(environment)),
                   "deterministic", "deterministic-hash", providerResult.requests)

PreferredModes == {Undefined, "deterministic", "provider"}

Environment(base, key, genesisBase, genesisKey, openaiKey, openrouterKey, fallbackDim) ==
  [EMBEDDINGS_API_BASE |-> base, EMBEDDINGS_API_KEY |-> key,
   GENESIS_API_BASE |-> genesisBase, GENESIS_API_KEY |-> genesisKey,
   OPENAI_API_KEY |-> openaiKey, OPENROUTER_API_KEY |-> openrouterKey,
   EMBEDDINGS_FALLBACK_DIM |-> fallbackDim]

NoEnvironment ==
  Environment(Undefined, Undefined, Undefined, Undefined, Undefined, Undefined, Undefined)

NotEmbedded ==
  [called |-> FALSE, text |-> EmptyText, preferred |-> Undefined,
   response |-> Response(FALSE, 0, FALSE, <<>>), result |-> ReturnedNull(<<>>)]

NotResolved == [called |-> FALSE, provider |-> NoProvider]

(***************************************************************************)
(* The upload directory: what parseFileToChunks returns for each file      *)
(***************************************************************************)
FileNames == {"one.txt", "two.txt", "rep.txt", "bad.pdf", "empty.txt"}

ParseFails(source) == source = "bad.pdf"

\* empty.txt holds whitespace and nothing else.
EmptyTxt == TextOf(Document(TRUE, 0, TRUE))

parseFileToChunks(source) ==
  CASE source = "one.txt" -> [source |-> source, chunks |-> <<ChunkAB, ChunkJoined>>]
    [] source = "two.txt" -> [source |-> source, chunks |-> <<ChunkAB>>]
    [] source = "rep.txt" -> [source |-> source, chunks |-> <<ChunkUpper, ChunkUpper>>]
    [] source = "empty.txt" -> [source |-> source, chunks |-> chunkText(EmptyTxt)]
    [] OTHER -> [source |-> source, chunks |-> <<>>]

VectorRecord(source, chunkId, text, vector, textHash) ==
  [source |-> source, chunkId |-> chunkId, text |-> text, vector |-> vector,
   textHash |-> textHash]

(***************************************************************************)
(* vectors.json                                                            *)
(***************************************************************************)
Missing == [kind |-> "missing", records |-> <<>>]

Corrupt == [kind |-> "corrupt", records |-> <<>>]

JsonFile(records) == [kind |-> "json", records |-> records]

\* loadRecords without its catch: an unreadable file is an exception.
loadRecordsThrowing(file) ==
  IF file.kind = "json" THEN [ok |-> TRUE, records |-> file.records]
  ELSE [ok |-> FALSE, records |-> <<>>]

\* loadRecords: the records of the file, [] when it cannot be read or parsed
\* (ok is FALSE for an exception, which loadRecords never raises).
loadRecords(file) ==
  IF file.kind = "json" THEN [ok |-> TRUE, records |-> file.records]
  ELSE [ok |-> TRUE, records |-> <<>>]

saveRecords(records) == JsonFile(records)

(***************************************************************************)
(* indexSources                                                            *)
(***************************************************************************)
\* The hash set started empty instead of from the loaded records.
ExistingHashesForgotten(records) == {}

\* new Set(records.map((record) => record.textHash))
ExistingHashes(records) == {records[i].textHash : i \in DOMAIN records}

\* The chunk loop's body without existingHashes.add(textHash).
ProcessChunkNoAdd(acc, parsed, index) ==
  LET chunk == parsed.chunks[index + 1]
      textHash == hashText(chunk)
  IN IF textHash \in acc.existingHashes
     THEN [acc EXCEPT !.skipped = @ + 1]
     ELSE [acc EXCEPT !.records = Append(@, VectorRecord(parsed.source, index, chunk,
                                                       createEmbedding(chunk), textHash)),
                      !.indexed = @ + 1]

\* The body of the chunk loop for chunk number index (0-based) of a parsed
\* document: skip a known hash, else embed, push the record, add the hash.
ProcessChunk(acc, parsed, index) ==
  LET chunk == parsed.chunks[index + 1]
      textHash == hashText(chunk)
  IN IF textHash \in acc.existingHashes
     THEN [acc EXCEPT !.skipped = @ + 1]
     ELSE [acc EXCEPT !.records = Append(@, VectorRecord(parsed.source, index, chunk,
                                                       createEmbedding(chunk), textHash)),
                      !.existingHashes = @ \cup {textHash},
                      !.indexed = @ + 1]

RECURSIVE ChunkLoop(_, _, _)
ChunkLoop(acc, parsed, index) ==
  IF index >= Len(parsed.chunks) THEN acc
  ELSE ChunkLoop(ProcessChunk(acc, parsed, index), parsed, index + 1)

\* The source loop's catch without skipped += 1.
ProcessSourceUncounted(acc, source) ==
  IF ParseFails(source) THEN acc
  ELSE ChunkLoop(acc, parseFileToChunks(source), 0)

\* The body of the source loop: a source that fails to parse is counted in
\* skipped and the loop goes on.
ProcessSource(acc, source) ==
  IF ParseFails(source) THEN [acc EXCEPT !.skipped = @ + 1]
  ELSE ChunkLoop(acc, parseFileToChunks(source), 0)

\* The source loop leaving at the first source that fails to parse (break
\* in place of continue).
RECURSIVE SourceLoopStopAtFailure(_, _)
SourceLoopStopAtFailure(acc, sources) ==
  IF sources = <<>> THEN acc
  ELSE IF ParseFails(sources[1]) THEN [acc EXCEPT !.skipped = @ + 1]
  ELSE SourceLoopStopAtFailure(ProcessSource(acc, sources[1]), Tail(sources))

RECURSIVE SourceLoop(_, _)
SourceLoop(acc, sources) ==
  IF sources = <<>> THEN acc
  ELSE SourceLoop(ProcessSource(acc, sources[1]), Tail(sources))

\* indexSources on the file as it is: load, loop, save, return the counts.
indexSources(file, sources) ==
  LET loaded == loadRecords(file)
      acc0 == [records |-> loaded.records,
               existingHashes |-> ExistingHashes(loaded.records),
               indexed |-> 0, skipped |-> 0]
      acc == SourceLoop(acc0, sources)
  IN [ok |-> loaded.ok, before |-> loaded.records,
      file |-> IF loaded.ok THEN saveRecords(acc.records) ELSE file,
      indexed |-> acc.indexed, skipped |-> acc.skipped]

(***************************************************************************)
(* queryIndex                                                              *)
(***************************************************************************)
RagMatch(source, chunkId, text, score) ==
  [source |-> source, chunkId |-> chunkId, text |-> text, score |-> score]

\* query.toLowerCase().split(/\s+/).filter(Boolean)
QueryTerms(query) == SplitTerms(toLowerCase(query), <<>>)

\* queryTerms.reduce: 0.05 for every term of the list that the lowercased
\* text includes.
keywordBoost(queryTerms, text) ==
  SumSeq([i \in DOMAIN queryTerms |->
            IF includes(toLowerCase(text), queryTerms[i]) THEN KEYWORD_BOOST ELSE 0])

ScoreRecord(query, record) ==
  RagMatch(record.source, record.chunkId, record.text,
           cosineSimilarity(createEmbedding(query), record.vector)
             + keywordBoost(QueryTerms(query), record.text))

\* The insertion of a sort that puts a later item before its equals.
RECURSIVE InsertByScoreBeforeEqual(_, _)
InsertByScoreBeforeEqual(sorted, item) ==
  IF sorted = <<>> THEN <<item>>
  ELSE IF sorted[1].score > item.score
       THEN <<sorted[1]>> \o InsertByScoreBeforeEqual(Tail(sorted), item)
       ELSE <<item>> \o sorted

\* Array.prototype.sort((a, b) => b.score - a.score): stable, descending.
RECURSIVE InsertByScore(_, _)
InsertByScore(sorted, item) ==
  IF sorted = <<>> THEN <<item>>
  ELSE IF sorted[1].score >= item.score
       THEN <<sorted[1]>> \o InsertByScore(Tail(sorted), item)
       ELSE <<item>> \o sorted

RECURSIVE SortByScoreDesc(_)
SortByScoreDesc(s) ==
  IF s = <<>> THEN <<>>
  ELSE InsertByScore(SortByScoreDesc(SubSeq(s, 1, Len(s) - 1)), s[Len(s)])

AboveThreshold(item) == item.score > SCORE_THRESHOLD

\* slice(0, k) taken before the sort.
SelectMatchesSliceFirst(scored, k) ==
  SelectSeq(SortByScoreDesc(Slice(scored, 0, k)), AboveThreshold)

\* scored.sort(...).slice(0, k).filter((item) => item.score > 0.01)
SelectMatches(scored, k) ==
  SelectSeq(Slice(SortByScoreDesc(scored), 0, k), AboveThreshold)

queryIndex(file, query, k) ==
  LET loaded == loadRecords(file)
      records == loaded.records
      scored == [i \in DOMAIN records |-> ScoreRecord(query, records[i])]
  IN [ok |-> loaded.ok, before |-> records,
      matches |-> IF Len(records) = 0 THEN <<>> ELSE SelectMatches(scored, k)]

(***************************************************************************)
(* lib/embeddings: normalizeEmbedding                                      *)
(*                                                                         *)
(* A component is a fixed-point number in units of 1 / FloatScale; a       *)
(* result is rounded to the nearest unit, as a Float32Array rounds to the  *)
(* nearest float.                                                          *)
(***************************************************************************)
\* The largest root of the search that is not above the square root of n.
RECURSIVE SqrtSearch(_, _, _)
SqrtSearch(n, low, high) ==
  IF high - low <= 1 THEN low
  ELSE LET mid == (low + high) \div 2
       IN IF mid * mid <= n THEN SqrtSearch(n, mid, high) ELSE SqrtSearch(n, low, mid)

\* The largest number whose square is a 32-bit integer.
MaxRoot == 46340

\* Math.sqrt, rounded to the nearest unit.
sqrt(n) ==
  LET floor == SqrtSearch(n, 0, Min(n, MaxRoot) + 1)
  IN IF n - floor * floor <= floor THEN floor ELSE floor + 1

\* a / b rounded to the nearest unit, for b > 0.
RoundDiv(a, b) == (2 * a + b) \div (2 * b)

\* A division by the sum of the magnitudes where the code divides by the
\* root of the sum of the squares.
normalizeEmbeddingByMagnitudes(v) ==
  LET norm == SumSeq([index \in DOMAIN v |-> IF v[index] < 0 THEN 0 - v[index] ELSE v[index]])
  IN IF norm = 0 THEN v
     ELSE [index \in DOMAIN v |-> RoundDiv(v[index] * FloatScale, norm)]

\* norm is the sum of the squares (in units of 1 / FloatScale^2), so its root
\* is in units of 1 / FloatScale and vector[index] * (1 / Math.sqrt(norm)) is
\* v[index] * FloatScale / sqrt(norm) units.
normalizeEmbedding(v) ==
  LET norm == SumSeq([index \in DOMAIN v |-> v[index] * v[index]])
  IN IF norm = 0 THEN v
     ELSE [index \in DOMAIN v |-> RoundDiv(v[index] * FloatScale, sqrt(norm))]

NoVector == <<>>

NotNormalized == [done |-> FALSE, once |-> <<>>, twice |-> <<>>]

NormalizeIdle == rawVector = NoVector /\ normalized = NotNormalized

(***************************************************************************)
(* The index route: the source names it hands to indexSources              *)
(***************************************************************************)
IsSeparator(c) == c = "/" \/ c = "\\"

\* source.split(/[/\\]/): the pieces between the separators.
RECURSIVE splitSeparators(_, _)
splitSeparators(source, cur) ==
  IF source = <<>> THEN <<cur>>
  ELSE IF IsSeparator(source[1]) THEN <<cur>> \o splitSeparators(Tail(source), <<>>)
  ELSE splitSeparators(Tail(source), Append(cur, source[1]))

\* source.split(/[/\\]/).pop() || source
baseName(source) ==
  LET pieces == splitSeparators(source, <<>>)
      popped == pieces[Len(pieces)]
  IN IF popped # <<>> THEN popped ELSE source

\* Array.from(new Set(names)): the first occurrence of every name, in order.
RECURSIVE uniqueInOrder(_, _)
uniqueInOrder(names, seen) ==
  IF names = <<>> THEN <<>>
  ELSE IF names[1] \in seen THEN uniqueInOrder(Tail(names), seen)
  ELSE <<names[1]>> \o uniqueInOrder(Tail(names), seen \cup {names[1]})

\* body.sources when it is an array of strings; isArray is FALSE for a body
\* without one.
Body(isArray, sources) == [isArray |-> isArray, sources |-> sources]

\* Lines 9-14 of the route: the list for indexSources, or status 400.
routeSources(requestBody) ==
  LET sources == IF requestBody.isArray
                 THEN uniqueInOrder([i \in DOMAIN requestBody.sources |->
                                       baseName(requestBody.sources[i])], {})
                 ELSE <<>>
  IN [done |-> TRUE, accepted |-> sources # <<>>, sources |-> sources]

NoBody == Body(FALSE, <<>>)

NotRouted == [done |-> FALSE, accepted |-> FALSE, sources |-> <<>>]

RouteIdle == postBody = NoBody /\ routed = NotRouted

(***************************************************************************)
(* lib/rag with the faiss index (src/app/projects/ProjectsBoard.tsx from   *)
(* line 114): index.faiss and metadata.json, the store cached in           *)
(* globalThis.__vectorStore                                                *)
(***************************************************************************)
NoFile == [kind |-> "none"]

\* Bytes that are neither a faiss index nor JSON.
Garbage == [kind |-> "garbage"]

\* store.index: null, or an IndexFlatIP of a dimension with its vectors; a
\* vector is named by the hash of the chunk it was computed from.
NullIndex == [present |-> FALSE, dimension |-> 0, vectors |-> <<>>]

IndexFlatIP(dimension, vectors) ==
  [present |-> TRUE, dimension |-> dimension, vectors |-> vectors]

ntotal(index) == Len(index.vectors)

\* index.toBuffer() written to index.faiss
IndexFile(index) ==
  [kind |-> "faiss", dimension |-> index.dimension, vectors |-> index.vectors]

\* JSON.stringify({ dimension, mode, records }) written to metadata.json
MetadataFile(dimension, mode, records) ==
  [kind |-> "json", dimension |-> dimension, mode |-> mode, records |-> records]

MetadataRecord(source, chunkId, text) ==
  [source |-> source, chunkId |-> chunkId, text |-> text, textHash |-> hashText(text)]

HashesOf(metadata) == {metadata[i].textHash : i \in DOMAIN metadata}

\* The VectorStore object; born is the number of restores that had finished
\* when the object was loaded.
VectorStore(index, metadata, dimension, mode, born) ==
  [index |-> index, metadata |-> metadata, dimension |-> dimension, mode |-> mode,
   hashes |-> HashesOf(metadata), born |-> born]

Disk(indexFile, metadataFile) == [index |-> indexFile, metadata |-> metadataFile]

EmptyDisk == Disk(NoFile, NoFile)

\* metadata.slice(0, total)
sliceTo(metadata, total) == SubSeq(metadata, 1, Min(total, Len(metadata)))

\* loadVectorStoreFromDisk: what the two files hold, the defaults for a file
\* that is missing or does not parse, the dimension of the index when the
\* metadata names none, the metadata cut to ntotal when there is an index
\* and the counts differ.
loadVectorStoreFromDisk(files, born) ==
  LET json == files.metadata.kind = "json"
      metadata == IF json THEN files.metadata.records ELSE <<>>
      index == IF files.index.kind = "faiss"
               THEN IndexFlatIP(files.index.dimension, files.index.vectors)
               ELSE NullIndex
      dimension == IF json THEN files.metadata.dimension ELSE 0
  IN VectorStore(index,
                 IF index.present /\ ntotal(index) # Len(metadata)
                 THEN sliceTo(metadata, ntotal(index)) ELSE metadata,
                 IF index.present /\ dimension = 0 THEN index.dimension ELSE dimension,
                 IF json THEN files.metadata.mode ELSE "deterministic", born)

\* The first write of saveVectorStore: metadata.json.
saveMetadata(files, store) ==
  [files EXCEPT !.metadata = MetadataFile(store.dimension, store.mode, store.metadata)]

\* The second write of saveVectorStore: index.faiss, unlinked when the store
\* has no index.
saveIndex(files, store) ==
  [files EXCEPT !.index = IF store.index.present THEN IndexFile(store.index) ELSE NoFile]

\* What embedText gives for a chunk: a vector of the fallback, a vector of a
\* provider (of another length), a vector of length 0, or an exception.
EmbedOutcomes == {"deterministic", "provider", "empty", "throws"}

\* The length of a provider's vectors: not the fallback's.
ProviderLength == 4 * DEFAULT_FALLBACK_DIM

Embedding(outcome) ==
  IF outcome = "provider" THEN [mode |-> "provider", length |-> ProviderLength]
  ELSE [mode |-> "deterministic", length |-> DEFAULT_FALLBACK_DIM]

\* What the loops of indexSources visit: a failure for a source that does
\* not parse, else every chunk of the source.
ChunkVisits(parsed) ==
  [i \in DOMAIN parsed.chunks |->
     [failure |-> FALSE, source |-> parsed.source, chunkId |-> i - 1,
      chunk |-> parsed.chunks[i]]]

RECURSIVE Visits(_)
Visits(sources) ==
  IF sources = <<>> THEN <<>>
  ELSE (IF ParseFails(sources[1])
        THEN <<[failure |-> TRUE, source |-> sources[1], chunkId |-> 0, chunk |-> <<>>]>>
        ELSE ChunkVisits(parseFileToChunks(sources[1])))
       \o Visits(Tail(sources))

\* index.add(normalized); metadata.push(record); hashes.add(textHash);
\* indexed += 1
pushRecord(run, index, visit) ==
  LET record == MetadataRecord(visit.source, visit.chunkId, visit.chunk)
  IN [run EXCEPT !.store.index = [index EXCEPT !.vectors = Append(@, record.textHash)],
                 !.store.metadata = Append(@, record),
                 !.store.hashes = @ \cup {record.textHash},
                 !.indexed = @ + 1,
                 !.added = @ \cup {record}]

\* One round of the loops of indexSources on the store object: a failing
\* source, a known hash, a failed or empty embedding are skipped; the first
\* vector of a store without index creates the index and sets dimension and
\* mode; another length or mode throws.
visitChunk(run, visit, outcome) ==
  IF run.thrown THEN run
  ELSE IF visit.failure THEN [run EXCEPT !.skipped = @ + 1]
  ELSE IF hashText(visit.chunk) \in run.store.hashes THEN [run EXCEPT !.skipped = @ + 1]
  ELSE IF outcome \in {"throws", "empty"} THEN [run EXCEPT !.skipped = @ + 1]
  ELSE IF ~run.store.index.present
       THEN pushRecord([run EXCEPT !.store.dimension = Embedding(outcome).length,
                                   !.store.mode = Embedding(outcome).mode],
                       IndexFlatIP(Embedding(outcome).length, <<>>), visit)
  ELSE IF Embedding(outcome).length # run.store.dimension THEN [run EXCEPT !.thrown = TRUE]
  ELSE IF Embedding(outcome).mode # run.store.mode THEN [run EXCEPT !.thrown = TRUE]
  ELSE pushRecord(run, run.store.index, visit)

RECURSIVE visitAll(_, _, _, _)
visitAll(run, visits, outcomes, position) ==
  IF position > Len(visits) THEN run
  ELSE visitAll(visitChunk(run, visits[position], outcomes[position]), visits, outcomes,
                position + 1)

\* The loops of indexSources on a store, the embedder answering outcomes.
indexLoops(store, sources, outcomes) ==
  visitAll([store |-> store, indexed |-> 0, skipped |-> 0, thrown |-> FALSE, added |-> {}],
           Visits(sources), outcomes, 1)

\* The order of the awaits of the backup route, after the read of dev.db.
BackupOrderReadsFirst == <<"readIndex", "readMetadata", "flush">>

BackupOrder == <<"flush", "readIndex", "readMetadata">>

\* The step of the backup route that follows a step.
afterBackupStep(step) ==
  LET place == CHOOSE i \in DOMAIN BackupOrder : BackupOrder[i] = step
  IN IF place = Len(BackupOrder) THEN "done" ELSE BackupOrder[place + 1]

\* No request of the kind in flight.
IdleIndexCall == [pc |-> "idle", sources |-> <<>>, store |-> 0, indexed |-> 0, skipped |-> 0, added |-> {}]

NoSnapshot == Disk(NoFile, NoFile)

IdleBackupCall == [pc |-> "idle", store |-> 0, snapshot |-> NoSnapshot, owed |-> {}, held |-> {}]

RestoreBody(hasDb, index, metadata) == [hasDb |-> hasDb, index |-> index, metadata |-> metadata]

IdleRestoreCall == [pc |-> "idle", body |-> RestoreBody(FALSE, NoFile, NoFile)]

\* What the model remembers of the past: the records of the index calls
\* that returned; the number of restores that finished; whether a restore
\* that carried both files has finished and no operation has started since,
\* and the files it carried; whether the first such operation got another
\* store than the one these files hold; the numbers of requests and restarts.
NoHistory ==
  [completed |-> {}, epoch |-> 0, pending |-> FALSE, restored |-> EmptyDisk, stale |-> FALSE,
   indexCalls |-> 0, backups |-> 0, restores |-> 0, restarts |-> 0]

FaissIdle ==
  /\ disk = EmptyDisk
  /\ heap = <<>>
  /\ cache = 0
  /\ indexCall = IdleIndexCall
  /\ backupCall = IdleBackupCall
  /\ restoreCall = IdleRestoreCall
  /\ history = NoHistory

MoreIdle == NormalizeIdle /\ RouteIdle /\ FaissIdle

(***************************************************************************)
(* The requests                                                            *)
(***************************************************************************)
NoRequest ==
  [op |-> "none", status |-> "ok", sources |-> <<>>, query |-> <<>>, k |-> 0,
   before |-> <<>>, indexed |-> 0, skipped |-> 0, matches |-> <<>>]

\* The source lists the index route hands to indexSources: the route has
\* removed the duplicates; the empty list is refused with status 400.
Batches ==
  {<<>>} \cup
  UNION {{s \in [1..n -> FileNames] : \A i, j \in 1..n : i # j => s[i] # s[j]} :
           n \in 1..MaxBatch}

\* body.k when it is a number; a request without one asks for DEFAULT_K.
BodyKs == (0 - MaxK)..MaxK

\* What a restore request can put in vectors.json: bytes that do not parse,
\* an empty array, a backup of this store, and a backup written by a
\* deployment whose embedding has another dimension.
OwnBackup ==
  <<VectorRecord("one.txt", 0, ChunkAB, createEmbedding(ChunkAB), hashText(ChunkAB)),
    VectorRecord("one.txt", 1, ChunkJoined, createEmbedding(ChunkJoined),
                 hashText(ChunkJoined))>>

ForeignBackup ==
  <<VectorRecord("old.txt", 0, <<"a">>, <<3, 4>>, hashText(<<"a">>)),
    VectorRecord("old.txt", 1, <<"b", " ", "a">>, <<5, 0>>, hashText(<<"b", " ", "a">>))>>

RestorePayloads == {Corrupt, JsonFile(<<>>), JsonFile(OwnBackup), JsonFile(ForeignBackup)}

(***************************************************************************)
(* indexSources step by step: a call is suspended at its awaits (load,     *)
(* parse, the metadata insert after a chunk, save), where another call of  *)
(* the same process can run                                                *)
(***************************************************************************)
CallIds == {1, 2}

IdleCall ==
  [pc |-> "idle", sources |-> <<>>, next |-> 0,
   parsed |-> [source |-> "", chunks |-> <<>>], index |-> 0,
   acc |-> [records |-> <<>>, existingHashes |-> {}, indexed |-> 0, skipped |-> 0],
   writes |-> 0, before |-> <<>>, loaded |-> 0]

NoCalls == [c \in CallIds |-> IdleCall]

\* The state of the library functions that are exercised on their own.
libVars == <<chunkVars, embedVars, calls, moreVars>>

Init ==
  /\ vectorsFile = Missing
  /\ last = NoRequest
  /\ document = NoDocument
  /\ chunked = NotChunked
  /\ env = NoEnvironment
  /\ embedded = NotEmbedded
  /\ resolved = NotResolved
  /\ calls = NoCalls
  /\ MoreIdle

\* POST /api/rag/index
IndexRoute ==
  /\ UNCHANGED libVars
  /\ \E sources \in Batches :
    IF sources = <<>>
    THEN /\ last' = [NoRequest EXCEPT !.op = "index", !.status = "bad_request"]
         /\ UNCHANGED vectorsFile
    ELSE \E result \in {indexSources(vectorsFile, sources)} :
            /\ vectorsFile' = result.file
            /\ last' = [NoRequest EXCEPT !.op = "index",
                                         !.status = IF result.ok THEN "ok" ELSE "error",
                                         !.sources = sources,
                                         !.before = result.before,
                                         !.indexed = IF result.ok THEN result.indexed ELSE 0,
                                         !.skipped = IF result.ok THEN result.skipped ELSE 0]

\* POST /api/rag/query
QueryRoute ==
  /\ UNCHANGED libVars
  /\ \E q \in Queries \cup {<<>>}, k \in BodyKs \cup {DEFAULT_K} :
       IF q = <<>>
       THEN /\ last' = [NoRequest EXCEPT !.op = "query", !.status = "bad_request"]
            /\ UNCHANGED vectorsFile
       ELSE \E result \in {queryIndex(vectorsFile, q, k)} :
               /\ last' = [NoRequest EXCEPT !.op = "query",
                                            !.status = IF result.ok THEN "ok" ELSE "error",
                                            !.query = q,
                                            !.k = k,
                                            !.before = result.before,
                                            !.matches = IF result.ok THEN result.matches
                                                        ELSE <<>>]
               /\ UNCHANGED vectorsFile

\* POST /api/dev/restore
RestoreRoute ==
  /\ UNCHANGED libVars
  /\ \E hasDb \in BOOLEAN, hasVectors \in BOOLEAN, payload \in RestorePayloads :
    IF ~hasDb /\ ~hasVectors
    THEN /\ last' = [NoRequest EXCEPT !.op = "restore", !.status = "bad_request"]
         /\ UNCHANGED vectorsFile
    ELSE /\ vectorsFile' = IF hasVectors THEN payload ELSE vectorsFile
         /\ last' = [NoRequest EXCEPT !.op = "restore"]

Next == IndexRoute \/ QueryRoute \/ RestoreRoute

Spec == Init /\ [][Next]_vars

\* The store under index and query requests alone, from the empty store.
NextIndexOnly == IndexRoute \/ QueryRoute

SpecIndexOnly == Init /\ [][NextIndexOnly]_vars

(***************************************************************************)
(* queryIndex on its own, on stores that hold the same records in          *)
(* different orders of insertion                                           *)
(***************************************************************************)
TieRecords ==
  {VectorRecord("rep.txt", 0, ChunkUpper, createEmbedding(ChunkUpper), hashText(ChunkUpper)),
   VectorRecord("ba.txt", 0, ChunkBA, createEmbedding(ChunkBA), hashText(ChunkBA)),
   VectorRecord("one.txt", 0, ChunkAB, createEmbedding(ChunkAB), hashText(ChunkAB))}

TieStores ==
  UNION {{s \in [1..n -> TieRecords] : \A i, j \in 1..n : i # j => s[i] # s[j]} :
           n \in 0..Cardinality(TieRecords)}

InitTies ==
  /\ vectorsFile \in {JsonFile(records) : records \in TieStores}
  /\ last = NoRequest
  /\ document = NoDocument
  /\ chunked = NotChunked
  /\ env = NoEnvironment
  /\ embedded = NotEmbedded
  /\ resolved = NotResolved
  /\ calls = NoCalls
  /\ MoreIdle

NextTies == QueryRoute

SpecTies == InitTies /\ [][NextTies]_vars

(***************************************************************************)
(* The steps of indexSources                                               *)
(***************************************************************************)
StepBatches == {<<"one.txt">>, <<"two.txt", "bad.pdf">>, <<"rep.txt", "empty.txt">>}

\* A readFile that rejects on a file that holds records (EACCES, EMFILE, EIO).
ReadFailure(file) == [kind |-> "unreadable", records |-> file.records]

\* What a readFile of vectors.json can meet: the file, or a rejection.
ReadOutcomes(file) == {file, ReadFailure(file)}

\* const records = await loadRecords(); the set of their hashes; the counters.
\* before and loaded remember what the file held and what the call got.
afterLoad(call, file) ==
  LET records == loadRecords(file).records
  IN [call EXCEPT !.pc = "source",
                  !.acc = [records |-> records, existingHashes |-> ExistingHashes(records),
                           indexed |-> 0, skipped |-> 0],
                  !.before = file.records,
                  !.loaded = Len(records)]

\* One round of the source loop up to its chunk loop: the parse of source
\* number next, which is counted in skipped when it throws.
afterParse(call) ==
  LET source == call.sources[call.next + 1]
      parsed == parseFileToChunks(source)
  IN IF ParseFails(source)
     THEN [call EXCEPT !.acc.skipped = @ + 1, !.next = @ + 1]
     ELSE IF parsed.chunks = <<>> THEN [call EXCEPT !.next = @ + 1]
     ELSE [call EXCEPT !.pc = "chunk", !.parsed = parsed, !.index = 0]

\* One round of the chunk loop; after the last chunk the source loop goes on.
chunkDone(call) ==
  LET acc == ProcessChunk(call.acc, call.parsed, call.index)
  IN IF call.index + 1 >= Len(call.parsed.chunks)
     THEN [call EXCEPT !.acc = acc, !.index = @ + 1, !.pc = "source", !.next = @ + 1]
     ELSE [call EXCEPT !.acc = acc, !.index = @ + 1]

\* A chunk loop that saves the records after every chunk.
afterChunkSaving(call, file) ==
  [call |-> [chunkDone(call) EXCEPT !.writes = @ + 1],
   file |-> saveRecords(chunkDone(call).acc.records)]

\* The chunk loop leaves the file alone.
afterChunk(call, file) == [call |-> chunkDone(call), file |-> file]

\* await saveRecords(records), after the source loop
afterSave(call) ==
  [call |-> [call EXCEPT !.pc = "return", !.writes = @ + 1],
   file |-> saveRecords(call.acc.records)]

InitSteps ==
  /\ vectorsFile \in {Missing, Corrupt, JsonFile(OwnBackup)}
  /\ last = NoRequest
  /\ document = NoDocument
  /\ chunked = NotChunked
  /\ env = NoEnvironment
  /\ embedded = NotEmbedded
  /\ resolved = NotResolved
  /\ calls = NoCalls
  /\ MoreIdle

CallIndexSources(c) ==
  /\ calls[c].pc = "idle"
  /\ \E sources \in StepBatches :
       calls' = [calls EXCEPT ![c] = [IdleCall EXCEPT !.pc = "load", !.sources = sources]]
  /\ UNCHANGED <<storeVars, chunkVars, embedVars, moreVars>>

LoadStep(c) ==
  /\ calls[c].pc = "load"
  /\ \E met \in ReadOutcomes(vectorsFile) :
       calls' = [calls EXCEPT ![c] = afterLoad(calls[c], met)]
  /\ UNCHANGED <<storeVars, chunkVars, embedVars, moreVars>>

ParseStep(c) ==
  /\ calls[c].pc = "source"
  /\ calls[c].next < Len(calls[c].sources)
  /\ calls' = [calls EXCEPT ![c] = afterParse(calls[c])]
  /\ UNCHANGED <<storeVars, chunkVars, embedVars, moreVars>>

ChunkStep(c) ==
  /\ calls[c].pc = "chunk"
  /\ \E after \in {afterChunk(calls[c], vectorsFile)} :
       /\ calls' = [calls EXCEPT ![c] = after.call]
       /\ vectorsFile' = after.file
  /\ UNCHANGED <<last, chunkVars, embedVars, moreVars>>

SaveStep(c) ==
  /\ calls[c].pc = "source"
  /\ calls[c].next >= Len(calls[c].sources)
  /\ \E after \in {afterSave(calls[c])} :
       /\ calls' = [calls EXCEPT ![c] = after.call]
       /\ vectorsFile' = after.file
  /\ UNCHANGED <<last, chunkVars, embedVars, moreVars>>

\* return { indexed, skipped }
ReturnStep(c) ==
  /\ calls[c].pc = "return"
  /\ calls' = [calls EXCEPT ![c].pc = "returned"]
  /\ UNCHANGED <<storeVars, chunkVars, embedVars, moreVars>>

NextSteps ==
  \E c \in CallIds :
    \/ CallIndexSources(c)
    \/ LoadStep(c)
    \/ ParseStep(c)
    \/ ChunkStep(c)
    \/ SaveStep(c)
    \/ ReturnStep(c)

SpecSteps == InitSteps /\ [][NextSteps]_vars

(***************************************************************************)
(* chunkText on its own: a document is read, then chunked                  *)
(***************************************************************************)
Documents ==
  {Document(lead, words, trail) :
     lead \in BOOLEAN, words \in 0..MaxWords, trail \in BOOLEAN}

InitChunk ==
  /\ vectorsFile = Missing
  /\ last = NoRequest
  /\ document \in Documents
  /\ chunked = NotChunked
  /\ env = NoEnvironment
  /\ embedded = NotEmbedded
  /\ resolved = NotResolved
  /\ calls = NoCalls
  /\ MoreIdle

\* parsePlainText: chunkText(raw)
ParsePlainText ==
  /\ ~chunked.done
  /\ chunked' = [done |-> TRUE, chunks |-> chunkText(TextOf(document))]
  /\ UNCHANGED <<storeVars, document, embedVars, calls, moreVars>>

NextChunk == ParsePlainText

SpecChunk == InitChunk /\ [][NextChunk]_vars

(***************************************************************************)
(* lib/embeddings on its own: a process with its environment resolves its  *)
(* provider, or embeds one text                                            *)
(***************************************************************************)
ValuesOf(value) == {Undefined, "  ", value}

ProviderEnvironments ==
  {Environment(explicitBase, explicitKey, genesisBase, genesisKey, openaiKey,
               openrouterKey, Undefined) :
     explicitBase \in ValuesOf("https://embed.example/v1"),
     explicitKey \in ValuesOf("embed-key"),
     genesisBase \in ValuesOf("https://genesis.example/v1"),
     genesisKey \in ValuesOf("genesis-key"),
     openaiKey \in ValuesOf("openai-key"),
     openrouterKey \in ValuesOf("openrouter-key")}

InitResolve ==
  /\ vectorsFile = Missing
  /\ last = NoRequest
  /\ document = NoDocument
  /\ chunked = NotChunked
  /\ env \in ProviderEnvironments
  /\ embedded = NotEmbedded
  /\ resolved = NotResolved
  /\ calls = NoCalls
  /\ MoreIdle

ResolveProvider ==
  /\ ~resolved.called
  /\ resolved' = [called |-> TRUE, provider |-> resolveProvider(env)]
  /\ UNCHANGED <<storeVars, chunkVars, env, embedded, calls, moreVars>>

NextResolve == ResolveProvider

SpecResolve == InitResolve /\ [][NextResolve]_vars

FallbackDims == {Undefined, "8", "2.5", "-3", "abc", "  "}

\* No provider, the custom provider, openrouter alone, and openai behind a
\* custom endpoint that has no key; each with every fallback dimension.
EmbedEnvironments ==
  {Environment(explicitBase, explicitKey, Undefined, Undefined, openaiKey, openrouterKey,
               fallbackDim) :
     <<explicitBase, explicitKey, openaiKey, openrouterKey>> \in
        {<<Undefined, Undefined, Undefined, Undefined>>,
         <<"https://embed.example/v1", "embed-key", "openai-key", Undefined>>,
         <<Undefined, "  ", Undefined, "openrouter-key">>,
         <<"https://embed.example/v1", Undefined, "openai-key", "openrouter-key">>},
     fallbackDim \in FallbackDims}

InitEmbed ==
  /\ vectorsFile = Missing
  /\ last = NoRequest
  /\ document = NoDocument
  /\ chunked = NotChunked
  /\ env \in EmbedEnvironments
  /\ embedded = NotEmbedded
  /\ resolved = NotResolved
  /\ calls = NoCalls
  /\ MoreIdle

EmbedText ==
  /\ ~embedded.called
  /\ \E text \in EmbedTexts, preferred \in PreferredModes, response \in Responses :
       embedded' = [called |-> TRUE, text |-> text, preferred |-> preferred,
                    response |-> response,
                    result |-> embedText(env, text, preferred, response)]
  /\ UNCHANGED <<storeVars, chunkVars, env, resolved, calls, moreVars>>

NextEmbed == EmbedText

SpecEmbed == InitEmbed /\ [][NextEmbed]_vars

(***************************************************************************)
(* normalizeEmbedding on its own, and the index route's source names       *)
(***************************************************************************)
\* Whole numbers between -2 and 2, in fixed-point units.
Components == {FloatScale * whole : whole \in (0 - 2)..2}

Vectors == UNION {[1..dimension -> Components] : dimension \in 0..MaxDimension}

InitNormalize ==
  /\ vectorsFile = Missing
  /\ last = NoRequest
  /\ document = NoDocument
  /\ chunked = NotChunked
  /\ env = NoEnvironment
  /\ embedded = NotEmbedded
  /\ resolved = NotResolved
  /\ calls = NoCalls
  /\ rawVector \in Vectors
  /\ normalized = NotNormalized
  /\ RouteIdle
  /\ FaissIdle

Normalize ==
  /\ ~normalized.done
  /\ normalized' = [done |-> TRUE, once |-> normalizeEmbedding(rawVector),
                    twice |-> normalizeEmbedding(normalizeEmbedding(rawVector))]
  /\ UNCHANGED <<storeVars, chunkVars, embedVars, calls, rawVector, routeVars, faissVars>>

NextNormalize == Normalize

SpecNormalize == InitNormalize /\ [][NextNormalize]_vars

\* a.txt, d/a.txt, d\a.txt, ../a.txt, a.txt/, ../, .. and the empty name,
\* written with "." for the extension.
SourceNames ==
  {<<"a", ".">>, <<"d", "/", "a", ".">>, <<"d", "\\", "a", ".">>,
   <<".", ".", "/", "a", ".">>, <<"a", ".", "/">>, <<".", ".", "/">>, <<".", ".">>, <<>>}

Bodies ==
  {NoBody} \cup
  {Body(TRUE, sources) : sources \in UNION {[1..n -> SourceNames] : n \in 0..MaxSources}}

InitRoute ==
  /\ vectorsFile = Missing
  /\ last = NoRequest
  /\ document = NoDocument
  /\ chunked = NotChunked
  /\ env = NoEnvironment
  /\ embedded = NotEmbedded
  /\ resolved = NotResolved
  /\ calls = NoCalls
  /\ NormalizeIdle
  /\ postBody \in Bodies
  /\ routed = NotRouted
  /\ FaissIdle

RouteSources ==
  /\ ~routed.done
  /\ routed' = routeSources(postBody)
  /\ UNCHANGED <<storeVars, chunkVars, embedVars, calls, normVars, postBody, faissVars>>

NextRoute == RouteSources

SpecRoute == InitRoute /\ [][NextRoute]_vars

(***************************************************************************)
(* The faiss store under index, query, backup and restore requests that    *)
(* are suspended at their awaits, and restarts of the process. One index   *)
(* call is in flight at a time; its loops and a load of the store are one  *)
(* step each.                                                              *)
(***************************************************************************)
otherVars == <<storeVars, chunkVars, embedVars, calls, normVars, routeVars>>

FaissBatches == {<<"one.txt">>, <<"two.txt", "bad.pdf">>}

\* One answer of the embedder for every place the loops can visit.
OutcomeLists ==
  LET lengths == {Len(Visits(sources)) : sources \in FaissBatches}
  IN [1..(CHOOSE n \in lengths : \A m \in lengths : m <= n) -> EmbedOutcomes]

\* The files of an older store, as a backup holds them.
ForeignRecords ==
  <<MetadataRecord("old.txt", 0, ChunkBA), MetadataRecord("old.txt", 1, ChunkAB)>>

ForeignVectors == <<hashText(ChunkBA), hashText(ChunkAB)>>

IndexPayloads ==
  {IndexFile(IndexFlatIP(DEFAULT_FALLBACK_DIM, SubSeq(ForeignVectors, 1, n))) : n \in 1..2}

MetadataPayloads ==
  {Garbage} \cup {MetadataFile(DEFAULT_FALLBACK_DIM, "deterministic", ForeignRecords)}

\* body.index and body.metadata: NoFile for a body without the field. A
\* body with db alone, and one with nothing, are among them.
RestoreBodies ==
  {RestoreBody(index = NoFile /\ metadata = NoFile /\ hasDb, index, metadata) :
     hasDb \in BOOLEAN, index \in {NoFile} \cup IndexPayloads,
     metadata \in {NoFile} \cup MetadataPayloads}

CarriesBoth(body) == body.index # NoFile /\ body.metadata # NoFile

HasPayload(body) == body.hasDb \/ body.index # NoFile \/ body.metadata # NoFile

InitFaiss ==
  /\ vectorsFile = Missing
  /\ last = NoRequest
  /\ document = NoDocument
  /\ chunked = NotChunked
  /\ env = NoEnvironment
  /\ embedded = NotEmbedded
  /\ resolved = NotResolved
  /\ calls = NoCalls
  /\ MoreIdle

\* getVectorStore: the cached store, loaded from the files when there is
\* none. The result names the store object in the heap.
getVectorStore ==
  IF cache # 0 THEN [heap |-> heap, store |-> cache]
  ELSE [heap |-> Append(heap, loadVectorStoreFromDisk(disk, history.epoch)),
        store |-> Len(heap) + 1]

\* An index or query operation starts: the first one after a restore that
\* has finished is remembered with the store it got.
afterStart(got) ==
  IF history.pending
  THEN [history EXCEPT
          !.pending = FALSE,
          !.restored = EmptyDisk,
          !.stale = got.heap[got.store] # loadVectorStoreFromDisk(history.restored, history.epoch)]
  ELSE history

\* indexSources: const store = await getVectorStore()
IndexGetStore ==
  /\ indexCall.pc = "idle"
  /\ history.indexCalls < MaxIndexCalls
  /\ \E sources \in FaissBatches, got \in {getVectorStore} :
       /\ heap' = got.heap
       /\ cache' = got.store
       /\ indexCall' = [IdleIndexCall EXCEPT !.pc = "loops", !.sources = sources,
                                             !.store = got.store]
       /\ history' = [afterStart(got) EXCEPT !.indexCalls = @ + 1]
  /\ UNCHANGED <<otherVars, disk, backupCall, restoreCall>>

\* indexSources: the loops over the sources and their chunks, which change
\* the store object; a thrown error ends the call without a save.
IndexLoops ==
  /\ indexCall.pc = "loops"
  /\ \E outcomes \in OutcomeLists :
       \E run \in {indexLoops(heap[indexCall.store], indexCall.sources, outcomes)} :
         /\ heap' = [heap EXCEPT ![indexCall.store] = run.store]
         /\ indexCall' = IF run.thrown THEN [IdleIndexCall EXCEPT !.pc = "thrown"]
                          ELSE [indexCall EXCEPT !.pc = "saveMetadata",
                                                 !.indexed = run.indexed,
                                                 !.skipped = run.skipped,
                                                 !.added = run.added]
  /\ UNCHANGED <<otherVars, disk, cache, backupCall, restoreCall, history>>

\* A call that threw has left; the next one can start.
IndexThrown ==
  /\ indexCall.pc = "thrown"
  /\ indexCall' = IdleIndexCall
  /\ UNCHANGED <<otherVars, disk, heap, cache, backupCall, restoreCall, history>>

\* indexSources: await saveVectorStore(store), the write of metadata.json
IndexSaveMetadata ==
  /\ indexCall.pc = "saveMetadata"
  /\ disk' = saveMetadata(disk, heap[indexCall.store])
  /\ indexCall' = [indexCall EXCEPT !.pc = "saveIndex"]
  /\ UNCHANGED <<otherVars, heap, cache, backupCall, restoreCall, history>>

\* indexSources: saveVectorStore's write of index.faiss, the store put in
\* the cache, and the return of the counts.
IndexSaveIndex ==
  /\ indexCall.pc = "saveIndex"
  /\ disk' = saveIndex(disk, heap[indexCall.store])
  /\ cache' = indexCall.store
  /\ indexCall' = [indexCall EXCEPT !.pc = "returned"]
  /\ history' = [history EXCEPT !.completed = @ \cup indexCall.added]
  /\ UNCHANGED <<otherVars, heap, backupCall, restoreCall>>

IndexReturn ==
  /\ indexCall.pc = "returned"
  /\ indexCall' = IdleIndexCall
  /\ UNCHANGED <<otherVars, disk, heap, cache, backupCall, restoreCall, history>>

\* queryIndex: const store = await getVectorStore(); the rest of the query
\* changes nothing.
QueryGetStore ==
  /\ \E got \in {getVectorStore} :
       /\ heap' = got.heap
       /\ cache' = got.store
       /\ history' = afterStart(got)
  /\ UNCHANGED <<otherVars, disk, indexCall, backupCall, restoreCall>>

\* GET /api/dev/backup starts: owed are the records of the index calls that
\* have returned, held the records of the cached store.
BackupStart ==
  /\ backupCall.pc \in {"idle", "done"}
  /\ history.backups < MaxBackups
  /\ backupCall' = [IdleBackupCall EXCEPT
                      !.pc = BackupOrder[1],
                      !.owed = history.completed,
                      !.held = IF cache = 0 THEN {} ELSE Range(heap[cache].metadata)]
  /\ history' = [history EXCEPT !.backups = @ + 1]
  /\ UNCHANGED <<otherVars, disk, heap, cache, indexCall, restoreCall>>

\* flushVectorStore: saveVectorStore(globalRef.__vectorStore) when there is
\* a cached store, nothing otherwise.
BackupFlush ==
  /\ backupCall.pc = "flush"
  /\ backupCall' = IF cache = 0 THEN [backupCall EXCEPT !.pc = afterBackupStep("flush")]
                    ELSE [backupCall EXCEPT !.pc = "saveMetadata", !.store = cache]
  /\ UNCHANGED <<otherVars, disk, heap, cache, indexCall, restoreCall, history>>

BackupSaveMetadata ==
  /\ backupCall.pc = "saveMetadata"
  /\ disk' = saveMetadata(disk, heap[backupCall.store])
  /\ backupCall' = [backupCall EXCEPT !.pc = "saveIndex"]
  /\ UNCHANGED <<otherVars, heap, cache, indexCall, restoreCall, history>>

BackupSaveIndex ==
  /\ backupCall.pc = "saveIndex"
  /\ disk' = saveIndex(disk, heap[backupCall.store])
  /\ cache' = backupCall.store
  /\ backupCall' = [backupCall EXCEPT !.pc = afterBackupStep("flush")]
  /\ UNCHANGED <<otherVars, heap, indexCall, restoreCall, history>>

\* payload.index = await toBase64(INDEX_PATH)
BackupReadIndex ==
  /\ backupCall.pc = "readIndex"
  /\ backupCall' = [backupCall EXCEPT !.pc = afterBackupStep("readIndex"),
                                        !.snapshot.index = disk.index]
  /\ UNCHANGED <<otherVars, disk, heap, cache, indexCall, restoreCall, history>>

\* payload.metadata = await toBase64(METADATA_PATH)
BackupReadMetadata ==
  /\ backupCall.pc = "readMetadata"
  /\ backupCall' = [backupCall EXCEPT !.pc = afterBackupStep("readMetadata"),
                                        !.snapshot.metadata = disk.metadata]
  /\ UNCHANGED <<otherVars, disk, heap, cache, indexCall, restoreCall, history>>

\* POST /api/dev/restore starts: 400 for a body without payload.
RestoreStart ==
  /\ restoreCall.pc \in {"idle", "done", "bad_request"}
  /\ history.restores < MaxRestores
  /\ \E body \in RestoreBodies :
       restoreCall' = [pc |-> IF HasPayload(body) THEN "writeIndex" ELSE "bad_request",
                       body |-> body]
  /\ history' = [history EXCEPT !.restores = @ + 1]
  /\ UNCHANGED <<otherVars, disk, heap, cache, indexCall, backupCall>>

\* if (hasIndex) await fs.writeFile(INDEX_PATH, buffer)
RestoreWriteIndex ==
  /\ restoreCall.pc = "writeIndex"
  /\ disk' = IF restoreCall.body.index # NoFile
              THEN [disk EXCEPT !.index = restoreCall.body.index] ELSE disk
  /\ restoreCall' = [restoreCall EXCEPT !.pc = "writeMetadata"]
  /\ history' = IF restoreCall.body.index # NoFile
                 THEN [history EXCEPT !.completed = {}] ELSE history
  /\ UNCHANGED <<otherVars, heap, cache, indexCall, backupCall>>

\* if (hasMetadata) await fs.writeFile(METADATA_PATH, buffer)
RestoreWriteMetadata ==
  /\ restoreCall.pc = "writeMetadata"
  /\ disk' = IF restoreCall.body.metadata # NoFile
              THEN [disk EXCEPT !.metadata = restoreCall.body.metadata] ELSE disk
  /\ restoreCall' = [restoreCall EXCEPT !.pc = "clear"]
  /\ history' = IF restoreCall.body.metadata # NoFile
                 THEN [history EXCEPT !.completed = {}] ELSE history
  /\ UNCHANGED <<otherVars, heap, cache, indexCall, backupCall>>

\* await clearVectorStoreCache(); the response
RestoreClearCache ==
  /\ restoreCall.pc = "clear"
  /\ cache' = 0
  /\ restoreCall' = [restoreCall EXCEPT !.pc = "done"]
  /\ history' = [history EXCEPT
                    !.epoch = @ + 1,
                    !.pending = CarriesBoth(restoreCall.body),
                    !.restored = IF CarriesBoth(restoreCall.body)
                                 THEN Disk(restoreCall.body.index, restoreCall.body.metadata)
                                 ELSE EmptyDisk,
                    !.stale = FALSE]
  /\ UNCHANGED <<otherVars, disk, heap, indexCall, backupCall>>

\* The process stops and starts again: the requests in flight and the
\* cached store are gone, the files stay.
Restart ==
  /\ history.restarts < MaxRestarts
  /\ heap' = <<>>
  /\ cache' = 0
  /\ indexCall' = IdleIndexCall
  /\ backupCall' = IdleBackupCall
  /\ restoreCall' = IdleRestoreCall
  /\ history' = [history EXCEPT !.restarts = @ + 1]
  /\ UNCHANGED <<otherVars, disk>>

IndexSteps ==
  \/ IndexGetStore
  \/ IndexLoops
  \/ IndexThrown
  \/ IndexSaveMetadata
  \/ IndexSaveIndex
  \/ IndexReturn

BackupSteps ==
  \/ BackupStart
  \/ BackupFlush
  \/ BackupSaveMetadata
  \/ BackupSaveIndex
  \/ BackupReadIndex
  \/ BackupReadMetadata

RestoreSteps ==
  \/ RestoreStart
  \/ RestoreWriteIndex
  \/ RestoreWriteMetadata
  \/ RestoreClearCache

\* Index and query requests, restore requests and restarts of the process.
NextFaiss == IndexSteps \/ QueryGetStore \/ RestoreSteps \/ Restart

SpecFaiss == InitFaiss /\ [][NextFaiss]_vars

\* Index, query and backup requests on a store that no restore and no
\* restart has touched.
NextBackup == IndexSteps \/ QueryGetStore \/ BackupSteps

SpecBackup == InitFaiss /\ [][NextBackup]_vars

(***************************************************************************)
(* Properties                                                              *)
(***************************************************************************)
StoredRecords == vectorsFile.records

IndexReturned == last.op = "index" /\ last.status = "ok"

QueryAnswered == last.op = "query" /\ last.status # "bad_request"

FailingSources(sources) == {i \in DOMAIN sources : ParseFails(sources[i])}

\* The chunk texts of the sources of a batch that parse.
ParsedChunks(sources) ==
  UNION {Range(parseFileToChunks(sources[i]).chunks) :
           i \in DOMAIN sources \ FailingSources(sources)}

\* The chunk texts of a batch whose hash the loaded store does not hold: the
\* chunks a call embeds.
EmbeddedChunks(before, sources) ==
  {c \in ParsedChunks(sources) : \A i \in DOMAIN before : before[i].textHash # hashText(c)}

Count(s, x) == Cardinality({i \in DOMAIN s : s[i] = x})

\* C1: after any sequence of indexSources calls from the empty store no two
\* persisted records have the same content hash, nor the same chunk text:
\* identical text in two sources, or at two positions, is stored once.
C1_NoDuplicateHash ==
  \A i, j \in DOMAIN StoredRecords :
    i # j => /\ StoredRecords[i].textHash # StoredRecords[j].textHash
             /\ StoredRecords[i].text # StoredRecords[j].text

\* two.txt was indexed onto one.txt's records: its chunk was skipped and the
\* shared text is stored once, under one.txt.
C1_Witness ==
  /\ IndexReturned
  /\ last.sources = <<"two.txt">>
  /\ last.skipped = 1
  /\ Count([i \in DOMAIN StoredRecords |-> StoredRecords[i].text], ChunkAB) = 1
  /\ \E i \in DOMAIN StoredRecords :
       StoredRecords[i].text = ChunkAB /\ StoredRecords[i].source = "one.txt"

\* A request that indexes one source which parses into N different chunks,
\* none of them in the store it loaded.
FreshSingleSource(req) ==
  /\ req.op = "index" /\ req.status = "ok"
  /\ Len(req.sources) = 1
  /\ ~ParseFails(req.sources[1])
  /\ LET chunks == parseFileToChunks(req.sources[1]).chunks
     IN /\ Cardinality(Range(chunks)) = Len(chunks)
        /\ EmbeddedChunks(req.before, req.sources) = Range(chunks)

\* C2: indexing is idempotent: the first call on a source of N unique chunks
\* new to the store returns indexed = N, skipped = 0; the call on the same
\* source that follows it returns indexed = 0, skipped = N and leaves the
\* persisted records as they are.
C2_Idempotent ==
  /\ [](FreshSingleSource(last) =>
          /\ last.indexed = Len(parseFileToChunks(last.sources[1]).chunks)
          /\ last.skipped = 0)
  /\ [][(FreshSingleSource(last) /\ last'.op = "index" /\ last'.sources = last.sources) =>
          /\ last'.status = "ok"
          /\ last'.indexed = 0
          /\ last'.skipped = Len(parseFileToChunks(last.sources[1]).chunks)
          /\ vectorsFile' = vectorsFile]_vars

\* The second call on one.txt: both chunks skipped, the file as it was.
C2_Witness ==
  /\ IndexReturned
  /\ last.sources = <<"one.txt">>
  /\ last.indexed = 0 /\ last.skipped = 2
  /\ last.before = StoredRecords
  /\ Len(StoredRecords) = 2
  /\ \A i \in DOMAIN StoredRecords : StoredRecords[i].source = "one.txt"

\* C3: a non-empty store is locked to one embedding dimension: all stored
\* vectors have the same dimension, whatever requests led to the state.
C3_OneDimension ==
  \A i, j \in DOMAIN StoredRecords :
    Len(StoredRecords[i].vector) = Len(StoredRecords[j].vector)

\* An indexing call on a non-empty store that embeds a chunk whose vector has
\* another dimension than the stored vectors.
IndexMismatch ==
  /\ last.op = "index" /\ last.status # "bad_request"
  /\ last.before # <<>>
  /\ \E c \in EmbeddedChunks(last.before, last.sources) :
       Len(createEmbedding(c)) # Len(last.before[1].vector)

\* C4: an indexing call that meets a dimension mismatch fails as a whole and
\* appends nothing.
C4_MismatchFails ==
  IndexMismatch => last.status = "error" /\ StoredRecords = last.before

\* C5: a source that fails to parse is counted in skipped and the batch goes
\* on: the call returns, indexed is the number of different chunks of the
\* parsing sources that the store did not hold, and each of them is stored.
C5_SourceIsolation ==
  (last.op = "index" /\ last.status # "bad_request") =>
    /\ last.status = "ok"
    /\ last.indexed = Cardinality(EmbeddedChunks(last.before, last.sources))
    /\ last.skipped >= Cardinality(FailingSources(last.sources))
    /\ \A c \in ParsedChunks(last.sources) :
         \E i \in DOMAIN StoredRecords : StoredRecords[i].textHash = hashText(c)

\* Three sources, the second unparseable, on the empty store.
C5_Witness ==
  /\ IndexReturned
  /\ last.sources = <<"one.txt", "bad.pdf", "rep.txt">>
  /\ last.before = <<>>
  /\ last.indexed = 3
  /\ last.skipped = 2
  /\ Len(StoredRecords) = 3

\* The boosted score of every record the last query loaded, in store order.
Scored == [i \in DOMAIN last.before |-> ScoreRecord(last.query, last.before[i])]

Passing == {i \in DOMAIN Scored : Scored[i].score > SCORE_THRESHOLD}

\* C6: for a query on a non-empty store with k >= 1 the matches are the
\* records scoring above 0.01, best first, cut to k: every match is a scored
\* record above the threshold, the scores do not increase, the list holds
\* min(k, number of records above the threshold) entries, and a record above
\* the threshold is left out only when k matches scoring at least as high
\* are returned.
C6_TopKAboveThreshold ==
  (QueryAnswered /\ last.before # <<>> /\ last.k >= 1) =>
    LET m == last.matches
    IN /\ last.status = "ok"
       /\ \A i \in DOMAIN m : m[i].score > SCORE_THRESHOLD
       /\ \A i, j \in DOMAIN m : i < j => m[i].score >= m[j].score
       /\ \A i \in DOMAIN m : Count(m, m[i]) <= Count(Scored, m[i])
       /\ Len(m) = Min(last.k, Cardinality(Passing))
       /\ \A j \in Passing :
            Count(m, Scored[j]) < Count(Scored, Scored[j]) =>
              Len(m) = last.k /\ Scored[j].score <= m[Len(m)].score

\* k = 1 on three records: one below the threshold, two above it, the better
\* of the two returned.
C6_Witness ==
  /\ QueryAnswered
  /\ Len(last.before) = 3
  /\ last.k = 1
  /\ Len(last.matches) = 1
  /\ Cardinality(Passing) = 2
  /\ \E j \in Passing : Scored[j].score < last.matches[1].score

\* C7: the number of matches is at most min(k, record_count) and never more
\* than k, for every numeric k, also 0 and below (no list is shorter than
\* empty: for k <= 0 the bound is the empty list).
C7_AtMostK ==
  QueryAnswered => Len(last.matches) <= Max(0, Min(last.k, Len(last.before)))

\* The distinct terms of a query that a chunk text includes.
DistinctTermsIn(query, text) ==
  {t \in Range(QueryTerms(query)) : includes(toLowerCase(text), t)}

\* C8: the lexical boost of a candidate is 0.05 times the number of distinct
\* query terms its lowercased text includes: every match is some loaded
\* record's cosine similarity plus that boost.
C8_BoostPerDistinctTerm ==
  QueryAnswered =>
    \A i \in DOMAIN last.matches :
      \E j \in DOMAIN last.before :
        /\ last.matches[i].source = last.before[j].source
        /\ last.matches[i].chunkId = last.before[j].chunkId
        /\ last.matches[i].text = last.before[j].text
        /\ last.matches[i].score =
             cosineSimilarity(createEmbedding(last.query), last.before[j].vector)
               + KEYWORD_BOOST * Cardinality(DistinctTermsIn(last.query, last.before[j].text))

\* The store holds no record: no file, a file that does not parse, or an
\* empty array.
StoreEmpty == vectorsFile.kind # "json" \/ vectorsFile.records = <<>>

C10_QueryMismatchRejected ==
  (/\ QueryAnswered
   /\ \E i \in DOMAIN last.before :
        Len(last.before[i].vector) # Len(createEmbedding(last.query))) =>
    last.status = "error" /\ last.matches = <<>>

(***************************************************************************)
(* Properties of chunkText                                                 *)
(***************************************************************************)
Chunks == chunked.chunks

\* The string that holds the given words one space apart.
IsWordsJoined(chunk, words) ==
  /\ Len(chunk) = 2 * Len(words) - 1
  /\ \A i \in 1..Len(words) : chunk[2 * i - 1] = words[i]
  /\ \A i \in 1..(Len(words) - 1) : IsSpace(chunk[2 * i])

\* C17: chunkText yields exactly one chunk for every document that has at
\* least one and fewer than CHUNK_SIZE whitespace-delimited tokens.
C17_OneChunkBelowChunkSize ==
  (chunked.done /\ document.words >= 1 /\ document.words < CHUNK_SIZE)
    => Len(Chunks) = 1

BlankDocuments == {Document(lead, 0, trail) : lead \in BOOLEAN, trail \in BOOLEAN}

\* C18: the empty string and a whitespace-only text yield zero chunks, and an
\* index request for a file that holds such a text returns without an error,
\* indexes nothing and leaves the stored records as they were.
C18_BlankDocumentNoChunks ==
  /\ \A doc \in BlankDocuments : chunkText(TextOf(doc)) = <<>>
  /\ (last.op = "index" /\ last.sources = <<"empty.txt">>)
       => /\ last.status = "ok"
          /\ last.indexed = 0
          /\ last.skipped = 0
          /\ StoredRecords = last.before

C18_Witness ==
  /\ last.op = "index"
  /\ last.sources = <<"empty.txt">>
  /\ last.status = "ok"
  /\ StoredRecords # <<>>

\* The non-empty tokens of the window of CHUNK_SIZE tokens at position start.
WindowWords(tokens, start) ==
  SelectSeq(SubSeq(tokens, start + 1, Min(start + CHUNK_SIZE, Len(tokens))),
            LAMBDA token : token # "")

\* C19: the chunks are, in order, the windows of the sequence text.split(/\s+/)
\* that start at positions 0, 800, 1600, ... below its length, each holding at
\* most CHUNK_SIZE tokens joined by single spaces, without the windows that
\* hold no word; the loop ends (its stride is positive), every chunk is
\* non-empty and every word of the document is in some chunk.
C19_SlidingWindows ==
  chunked.done =>
    \E tokens \in {splitWhitespace(TextOf(document))} :
      \E windows \in {SelectSeq([r \in 1..Cardinality({start \in 0..(Len(tokens) - 1) :
                                       start % (CHUNK_SIZE - CHUNK_OVERLAP) = 0}) |->
                                   WindowWords(tokens, (r - 1) * (CHUNK_SIZE - CHUNK_OVERLAP))],
                                LAMBDA words : words # <<>>)} :
        /\ CHUNK_SIZE - CHUNK_OVERLAP > 0
        /\ Len(Chunks) = Len(windows)
        /\ \A r \in 1..Len(Chunks) :
             /\ IsWordsJoined(Chunks[r], windows[r])
             /\ Len(windows[r]) <= CHUNK_SIZE
             /\ Chunks[r] # <<>>
        /\ {Word(i) : i \in 1..document.words}
             \subseteq UNION {Range(Chunks[r]) : r \in 1..Len(Chunks)}

C19_Witness ==
  /\ chunked.done
  /\ document.lead
  /\ document.words > 2 * (CHUNK_SIZE - CHUNK_OVERLAP)
  /\ Len(Chunks) = 3
  /\ Len(Chunks[1]) = 2 * (CHUNK_SIZE - 1) - 1

(***************************************************************************)
(* Properties of embedText and resolveProvider                             *)
(***************************************************************************)
EmbedResult == embedded.result

\* The first 16000 characters of the text of the call.
FirstChars(text) == sliceText(text, MAX_INPUT_CHARS)

IsSet(value) == value # Undefined /\ value # "" /\ value # "  "

CustomConfigured == IsSet(env.EMBEDDINGS_API_BASE) /\ IsSet(env.EMBEDDINGS_API_KEY)

GenesisConfigured == IsSet(env.GENESIS_API_BASE) /\ IsSet(env.GENESIS_API_KEY)

OpenaiConfigured == IsSet(env.OPENAI_API_KEY)

OpenrouterConfigured == IsSet(env.OPENROUTER_API_KEY)

ProviderConfigured ==
  CustomConfigured \/ GenesisConfigured \/ OpenaiConfigured \/ OpenrouterConfigured

\* The response is a failure: no answer, a status other than 200, a body that
\* does not fit the schema, no data, or an empty vector.
ResponseFails(response) ==
  \/ ~response.fetched
  \/ response.status # 200
  \/ ~response.valid
  \/ response.data = <<>>
  \/ response.data[1].embedding = <<>>

ProviderFailure == ~ProviderConfigured \/ ResponseFails(embedded.response)

\* The result is the deterministic function's vector of the text.
IsDeterministicVectorOf(vector, text) ==
  /\ Len(vector) = getFallbackDimension(env)
  /\ \A component \in 1..Len(vector) :
       vector[component] = Sha256Int32(component - 1, text)

IsDeterministicResult ==
  /\ ~EmbedResult.thrown
  /\ EmbedResult.result
  /\ EmbedResult.mode = "deterministic"
  /\ EmbedResult.provider = "deterministic-hash"
  /\ IsDeterministicVectorOf(EmbedResult.vector,
                             IF trimText(FirstChars(embedded.text)) = <<>> THEN EmptyText
                             ELSE FirstChars(embedded.text))

IsProviderResult ==
  /\ ~EmbedResult.thrown
  /\ EmbedResult.result
  /\ EmbedResult.mode = "provider"
  /\ ~ProviderFailure
  /\ EmbedResult.vector = embedded.response.data[1].embedding

\* C11: with preferredMode 'provider' and a text that is not blank, embedText
\* returns the provider's vector or throws; it never returns the deterministic
\* function's vector.
C11_ProviderModeNoFallback ==
  (embedded.called /\ embedded.preferred = "provider" /\ trimText(embedded.text) # <<>>)
    => (EmbedResult.thrown \/ IsProviderResult)

\* C12: with no preferred mode embedText never throws, and on every provider
\* failure it returns the deterministic vector with mode 'deterministic'.
C12_DefaultModeFallsBack ==
  (embedded.called /\ embedded.preferred = Undefined)
    => /\ ~EmbedResult.thrown
       /\ EmbedResult.result
       /\ ProviderFailure => IsDeterministicResult

C12_Witness ==
  /\ embedded.called
  /\ embedded.preferred = Undefined
  /\ CustomConfigured
  /\ embedded.response.fetched
  /\ embedded.response.status = 500
  /\ EmbedResult.requests # <<>>
  /\ EmbedResult.mode = "deterministic"

\* C13: with preferredMode 'deterministic' embedText sends no request to a
\* provider, whatever is configured, and returns the deterministic function's
\* vector with mode 'deterministic'.
C13_DeterministicModeNoCall ==
  (embedded.called /\ embedded.preferred = "deterministic")
    => /\ EmbedResult.requests = <<>>
       /\ IsDeterministicResult

C13_Witness ==
  /\ embedded.called
  /\ embedded.preferred = "deterministic"
  /\ embedded.text = ShortText
  /\ CustomConfigured
  /\ ~ResponseFails(embedded.response)
  /\ EmbedResult.mode = "deterministic"

\* C14: for an empty or whitespace-only text embedText returns the
\* deterministic vector of the empty string and sends no request, for every
\* preferred mode and every provider configuration.
C14_BlankTextNoCall ==
  (embedded.called /\ trimText(embedded.text) = <<>>)
    => /\ EmbedResult.requests = <<>>
       /\ ~EmbedResult.thrown
       /\ EmbedResult.result
       /\ IsDeterministicVectorOf(EmbedResult.vector, EmptyText)

C14_Witness ==
  /\ embedded.called
  /\ embedded.text = SpacesText
  /\ embedded.preferred = "provider"
  /\ OpenrouterConfigured
  /\ ~ResponseFails(embedded.response)
  /\ EmbedResult.result

\* C15: the resolved provider is the first configured one in the order
\* custom (endpoint and key), genesis (endpoint and key), openai (key),
\* openrouter (key), with that provider's endpoint and key; a provider with
\* one of its two values is passed over; with none configured there is no
\* provider.
C15_ResolutionOrder ==
  resolved.called =>
    resolved.provider =
      IF CustomConfigured
      THEN [name |-> "custom", baseUrl |-> env.EMBEDDINGS_API_BASE,
            key |-> env.EMBEDDINGS_API_KEY]
      ELSE IF GenesisConfigured
      THEN [name |-> "genesis", baseUrl |-> env.GENESIS_API_BASE,
            key |-> env.GENESIS_API_KEY]
      ELSE IF OpenaiConfigured
      THEN [name |-> "openai", baseUrl |-> "https://api.openai.com/v1",
            key |-> env.OPENAI_API_KEY]
      ELSE IF OpenrouterConfigured
      THEN [name |-> "openrouter", baseUrl |-> "https://openrouter.ai/api/v1",
            key |-> env.OPENROUTER_API_KEY]
      ELSE NoProvider

C15_Witness ==
  /\ resolved.called
  /\ resolved.provider.name = "openai"
  /\ IsSet(env.EMBEDDINGS_API_BASE)
  /\ env.EMBEDDINGS_API_KEY = "  "
  /\ IsSet(env.GENESIS_API_KEY)
  /\ OpenrouterConfigured

\* C16: a call's result is the result of the same call on every text with the
\* same first 16000 characters; a deterministic vector is the hash vector of
\* those characters; every request a call sends carries those characters.
C16_TruncationFirst ==
  embedded.called =>
    /\ \A other \in EmbedTexts :
         FirstChars(other) = FirstChars(embedded.text)
           => embedText(env, other, embedded.preferred, embedded.response) = EmbedResult
    /\ (EmbedResult.result /\ EmbedResult.provider = "deterministic-hash")
         => IsDeterministicVectorOf(EmbedResult.vector,
                                    IF trimText(FirstChars(embedded.text)) = <<>>
                                    THEN EmptyText ELSE FirstChars(embedded.text))
    /\ \A i \in DOMAIN EmbedResult.requests :
         EmbedResult.requests[i].input = FirstChars(embedded.text)

C16_Witness ==
  /\ embedded.called
  /\ embedded.text = LongTextY
  /\ embedded.preferred = "provider"
  /\ EmbedResult.result
  /\ Len(EmbedResult.requests) = 1
  /\ EmbedResult.requests[1].input = FullText

(***************************************************************************)
(* Properties of the steps of indexSources                                 *)
(***************************************************************************)
LoopsEnded(call) == call.pc = "source" /\ call.next >= Len(call.sources)

\* C20: a call has written nothing while it loads, parses and processes
\* chunks; it has written exactly once, with every source processed, when it
\* is about to return and after it has returned; and the file changes only
\* in the step of a call that has ended its loops and will return next.
C20_OneWritePerCall ==
  /\ [](\A c \in CallIds :
          /\ calls[c].pc \in {"idle", "load", "source", "chunk"} => calls[c].writes = 0
          /\ calls[c].pc \in {"return", "returned"}
               => /\ calls[c].writes = 1
                  /\ calls[c].next = Len(calls[c].sources))
  /\ [][vectorsFile' # vectorsFile
          => \E c \in CallIds : LoopsEnded(calls[c]) /\ calls'[c].pc = "return"]_vars

C20_Witness ==
  /\ calls[1].pc = "returned"
  /\ calls[1].sources = <<"two.txt", "bad.pdf">>
  /\ calls[1].acc.indexed = 1
  /\ calls[1].acc.skipped = 1
  /\ calls[1].writes = 1
  /\ calls[2].pc = "returned"
  /\ StoredRecords # <<>>

(***************************************************************************)
(* Properties of the order of the matches                                  *)
(***************************************************************************)
\* The place of a match's record in the store the query loaded.
PlaceOf(match) ==
  CHOOSE place \in DOMAIN last.before :
    /\ last.before[place].source = match.source
    /\ last.before[place].chunkId = match.chunkId
    /\ last.before[place].text = match.text

\* C25: of two matches of a query the earlier one has the higher score, or
\* the same score and the earlier place in the store.
C25_TiesInInsertionOrder ==
  QueryAnswered =>
    \A i, j \in DOMAIN last.matches :
      i < j => \/ last.matches[i].score > last.matches[j].score
               \/ /\ last.matches[i].score = last.matches[j].score
                  /\ PlaceOf(last.matches[i]) < PlaceOf(last.matches[j])

C25_Witness ==
  /\ QueryAnswered
  /\ Len(last.matches) = 2
  /\ last.matches[1].score = last.matches[2].score
  /\ last.matches[1].text = ChunkBA
  /\ last.matches[2].text = ChunkUpper

(***************************************************************************)
(* Properties of the mode label                                            *)
(***************************************************************************)
\* The vector of the result is the one the provider's response carried.
CameFromProvider ==
  /\ EmbedResult.requests # <<>>
  /\ ~ResponseFails(embedded.response)
  /\ EmbedResult.vector = embedded.response.data[1].embedding

\* C28: a result labelled 'provider' carries the provider's vector, and a
\* result that carries a vector of the deterministic function (of the
\* truncated text, or of the empty string) is labelled 'deterministic' with
\* provider 'deterministic-hash'.
C28_ModeLabelTruthful ==
  (embedded.called /\ EmbedResult.result)
    => /\ EmbedResult.mode = "provider" => CameFromProvider
       /\ (\/ IsDeterministicVectorOf(EmbedResult.vector, FirstChars(embedded.text))
           \/ IsDeterministicVectorOf(EmbedResult.vector, EmptyText))
            => /\ EmbedResult.mode = "deterministic"
               /\ EmbedResult.provider = "deterministic-hash"

(***************************************************************************)
(* Properties of normalizeEmbedding                                        *)
(***************************************************************************)
\* Units of rounding that a result may be off by.
Tolerance == 1

Abs(x) == IF x < 0 THEN 0 - x ELSE x

\* The L2 norm of a fixed-point vector, in units.
NormOf(v) == sqrt(SumSeq([index \in DOMAIN v |-> v[index] * v[index]]))

IsZeroVector(v) == \A index \in DOMAIN v : v[index] = 0

\* C24: a zero vector is returned as it is; for a vector that is not zero,
\* normalize(v) has norm 1 and normalize(normalize(v)) is normalize(v), both
\* within Tolerance units.
C24_NormalizeIdempotent ==
  normalized.done =>
    IF IsZeroVector(rawVector) THEN normalized.once = rawVector /\ normalized.twice = rawVector
    ELSE /\ Len(normalized.once) = Len(rawVector)
         /\ Abs(NormOf(normalized.once) - FloatScale) <= Tolerance
         /\ Len(normalized.twice) = Len(rawVector)
         /\ \A index \in DOMAIN rawVector :
              Abs(normalized.twice[index] - normalized.once[index]) <= Tolerance

C24_Witness ==
  /\ normalized.done
  /\ Len(rawVector) = 3
  /\ rawVector[1] = FloatScale
  /\ rawVector[2] = 0 - 2 * FloatScale
  /\ rawVector[3] = 2 * FloatScale
  /\ normalized.once # rawVector
  /\ normalized.once[3] > 0

(***************************************************************************)
(* Properties of the index route's source names                            *)
(***************************************************************************)
\* C30: every name of an accepted request that reaches indexSources is free
\* of '/' and '\', and no name is handed over twice.
C30_BareSourceNames ==
  (routed.done /\ routed.accepted)
    => /\ \A i \in DOMAIN routed.sources :
            \A at \in DOMAIN routed.sources[i] : ~IsSeparator(routed.sources[i][at])
       /\ \A i, j \in DOMAIN routed.sources :
            i # j => routed.sources[i] # routed.sources[j]
(***************************************************************************)
(* The counts indexSources returns                                         *)
(***************************************************************************)
\* What the source loop visits: one failure for a source that does not
\* parse, every chunk of a source that parses.
RECURSIVE VisitedCount(_)
VisitedCount(sources) ==
  IF sources = <<>> THEN 0
  ELSE (IF ParseFails(sources[1]) THEN 1 ELSE Len(parseFileToChunks(sources[1]).chunks))
       + VisitedCount(Tail(sources))

\* C29: for every indexSources call that returns, indexed + skipped is the
\* number of sources that failed to parse plus the number of chunks of the
\* sources that parsed, and the file holds the records loaded at the start
\* of the call plus indexed new ones.
C29_ResultAccounting ==
  (IndexReturned /\ last.sources # <<>>) =>
    /\ last.indexed + last.skipped = VisitedCount(last.sources)
    /\ Len(StoredRecords) = Len(last.before) + last.indexed

C29_Witness ==
  /\ IndexReturned
  /\ last.sources # <<>>
  /\ \E i \in DOMAIN last.sources : ParseFails(last.sources[i])
  /\ last.before # <<>>
  /\ last.indexed > 0
  /\ last.skipped > 1

(***************************************************************************)
(* What a call of indexSources leaves of the records it found, and what    *)
(* two calls leave of each other's                                         *)
(***************************************************************************)
IsPrefix(s, t) == Len(s) <= Len(t) /\ \A i \in DOMAIN s : t[i] = s[i]

Saved(c) == calls[c].pc \in {"return", "returned"}

\* C26: indexing is append-only: the records the file held when a call
\* loaded it are a prefix of the records the call has written, also when
\* the call could not read the file.
C26_AppendOnly ==
  \A c \in CallIds : Saved(c) => IsPrefix(calls[c].before, calls[c].acc.records)

\* The records a call pushed and counted in indexed.
Counted(c) ==
  {calls[c].acc.records[i] : i \in (calls[c].loaded + 1)..Len(calls[c].acc.records)}

ReadAll(c) == calls[c].loaded = Len(calls[c].before)

BothReturned == \A c \in CallIds : calls[c].pc = "returned" /\ ReadAll(c)

\* C27: after two interleaved calls have returned (every read having
\* succeeded), the file holds a record for every chunk either call counted
\* in indexed, and no content hash twice.
C27_InterleavedCallsKeepAll ==
  BothReturned =>
    /\ \A c \in CallIds : \A record \in Counted(c) :
          \E i \in DOMAIN StoredRecords : StoredRecords[i] = record
    /\ \A i, j \in DOMAIN StoredRecords :
          StoredRecords[i].textHash = StoredRecords[j].textHash => i = j

(***************************************************************************)
(* The faiss store: counts, backup and restore                             *)
(***************************************************************************)
\* C23: every store object, after its load and after every mutation, holds
\* as many metadata records as its index holds vectors (no index: none).
C23_MetadataMatchesIndex ==
  \A id \in DOMAIN heap : Len(heap[id].metadata) = ntotal(heap[id].index)

SnapshotRecords ==
  IF backupCall.snapshot.metadata.kind = "json"
  THEN Range(backupCall.snapshot.metadata.records) ELSE {}

SnapshotVectors ==
  IF backupCall.snapshot.index.kind = "faiss"
  THEN Range(backupCall.snapshot.index.vectors) ELSE {}

InSnapshot(record) == record \in SnapshotRecords /\ record.textHash \in SnapshotVectors

C22_ReloadAfterRestore == ~history.stale

====
